---- MODULE Spec2Model ----
(***************************************************************************)
(* A model of IntentClassifier (src/src/classifier.js): the dataset, the   *)
(* TF-IDF index, the embedding records and their file, the query cache,    *)
(* and the operations classify, addIntent, removeIntent and                *)
(* generateEmbeddings.                                                     *)
(*                                                                         *)
(* A text is a sequence of one-character strings, so that the vowel test,  *)
(* the tokenisers and the Jaccard check work on what the code works on.    *)
(* A similarity is kept exactly: its sign and the fraction num/den that is *)
(* the square of the cosine.  The external collaborators (the embedding    *)
(* provider, the chat validator) answer nondeterministically; the provider *)
(* returns Embed(text) when it answers.                                    *)
(*                                                                         *)
(* The calls on an instance are made one at a time, each awaited before    *)
(* the next starts; generateEmbeddings is the one operation modelled step  *)
(* by step (one provider request per batch).  The index is natural's       *)
(* TfIdf: a document keeps the words of its text that are no stop words,   *)
(* idf = 1 + ln(N / (1 + df)) is tabulated in tenths, and tfidfs(text)     *)
(* yields one measure per document.                                        *)
(***************************************************************************)
EXTENDS Integers, Sequences, FiniteSets, TLC

\* ------------------------------------------------------------------ texts

Run   == <<"r", "U", "n">>
GoRun == <<"g", "o", " ", "r", "u", "n">>
Swim  == <<"s", "w", "i", "m">>
My    == <<"m", "y">>
Empty == <<>>

\* String.prototype.toLowerCase on one character.
LowerChar(c) == IF c = "U" THEN "u" ELSE c

ToLowerCase(s) == [k \in 1..Len(s) |-> LowerChar(s[k])]

\* \w of the regular expressions: a letter, a digit or the underscore.
IsWordChar(c) ==
    c \in {"g", "i", "o", "u", "U", "m", "n", "r", "s", "w", "y"}

\* The vowel test with "y" taken for a vowel.
HasVowelOrY(query) ==
    \E k \in 1..Len(query) : LowerChar(query[k]) \in {"a", "e", "i", "o", "u", "y"}

\* /[aeiou]/i.test(query)
HasVowel(query) ==
    \E k \in 1..Len(query) : LowerChar(query[k]) \in {"a", "e", "i", "o", "u"}

\* s.split(/\W+/).filter(Boolean): the maximal runs of word characters.
RECURSIVE SplitFrom(_, _, _)
SplitFrom(s, k, cur) ==
    IF k > Len(s)
    THEN IF cur = <<>> THEN <<>> ELSE <<cur>>
    ELSE IF IsWordChar(s[k])
         THEN SplitFrom(s, k + 1, Append(cur, s[k]))
         ELSE IF cur = <<>>
              THEN SplitFrom(s, k + 1, <<>>)
              ELSE <<cur>> \o SplitFrom(s, k + 1, <<>>)

SplitWords(s) == SplitFrom(s, 1, <<>>)

Range(seq) == {seq[k] : k \in 1..Len(seq)}

\* new Set(text.toLowerCase().split(/\W+/).filter(Boolean))
WordSet(text) == Range(SplitWords(ToLowerCase(text)))

\* The stop words of natural that the modelled texts use.
Stopwords == {<<"m", "y">>}

RECURSIVE SelectNonStop(_)
SelectNonStop(toks) ==
    IF toks = <<>> THEN <<>>
    ELSE IF Head(toks) \in Stopwords
         THEN SelectNonStop(Tail(toks))
         ELSE <<Head(toks)>> \o SelectNonStop(Tail(toks))

\* natural buildDocument: tokenize the lower-cased text, drop the stop words.
BuildDocument(text) == SelectNonStop(SplitWords(ToLowerCase(text)))

\* natural tfidf(terms, d) tokenizes the query the same way, stop words kept.
QueryTerms(text) == SplitWords(ToLowerCase(text))

\* ------------------------------------------------------------ similarities

RECURSIVE Gcd(_, _)
Gcd(a, b) == IF b = 0 THEN a ELSE Gcd(b, a % b)

\* A JavaScript number that is a cosine: NaN, or the sign and the square.
NaN == [nan |-> TRUE, neg |-> FALSE, num |-> 0, den |-> 1]

Sim(neg, num, den) ==
    LET g == Gcd(num, den)
    IN  [nan |-> FALSE, neg |-> neg /\ num > 0, num |-> num \div g, den |-> den \div g]

Zero == Sim(FALSE, 0, 1)
One  == Sim(FALSE, 1, 1)

\* The number n/d (d > 0) as a similarity value.
Ratio(n, d) == Sim(n < 0, n * n, d * d)

\* a/b < c/d for a, c >= 0 and b, d > 0, by continued fractions, so that no
\* product leaves the 32-bit range.
RECURSIVE FracLess(_, _, _, _)
FracLess(a, b, c, d) ==
    LET qa == a \div b
        qc == c \div d
        ra == a % b
        rc == c % d
    IN  IF qa # qc THEN qa < qc
        ELSE IF rc = 0 THEN FALSE
        ELSE IF ra = 0 THEN TRUE
        ELSE FracLess(d, rc, b, ra)

\* x < y on JavaScript numbers: false when either is NaN.
Less(x, y) ==
    /\ ~x.nan
    /\ ~y.nan
    /\ IF x.neg
       THEN IF y.neg THEN FracLess(y.num, y.den, x.num, x.den) ELSE TRUE
       ELSE IF y.neg THEN FALSE ELSE FracLess(x.num, x.den, y.num, y.den)

\* x > y and x >= y on JavaScript numbers.
Greater(x, y) == Less(y, x)
GreaterEq(x, y) == ~x.nan /\ ~y.nan /\ ~Less(x, y)

RECURSIVE SumTo(_, _)
SumTo(f, n) == IF n = 0 THEN 0 ELSE f[n] + SumTo(f, n - 1)

\* cosineSimilarity(vecA, vecB): the loop runs over vecA's indices; an index
\* vecB lacks reads undefined and makes the result NaN, and so does 0/0.
cosineSimilarity(vecA, vecB) ==
    IF Len(vecB) < Len(vecA) THEN NaN
    ELSE LET n == Len(vecA)
             dotProduct == SumTo([k \in 1..n |-> vecA[k] * vecB[k]], n)
             normA == SumTo([k \in 1..n |-> vecA[k] * vecA[k]], n)
             normB == SumTo([k \in 1..n |-> vecB[k] * vecB[k]], n)
         IN  IF normA = 0 \/ normB = 0 THEN NaN
             ELSE Sim(dotProduct < 0, dotProduct * dotProduct, normA * normB)

\* ----------------------------------------------------------------- TF-IDF

\* natural idf: 1 + ln(N / (1 + docsWithTerm)), in tenths, for N = 1..6
\* documents and docsWithTerm = 0..N.
IdfTable ==
    << <<10, 3>>,
       <<17, 10, 6>>,
       <<21, 14, 10, 7>>,
       <<24, 17, 13, 10, 8>>,
       <<26, 19, 15, 12, 10, 8>>,
       <<28, 21, 17, 14, 12, 10, 8>> >>

Count(term, doc) == Cardinality({k \in 1..Len(doc) : doc[k] = term})

\* natural idf(term) over the documents of the index.
Idf(term, docs) ==
    LET docsWithTerm == Cardinality({d \in 1..Len(docs) : Count(term, docs[d]) > 0})
    IN  IdfTable[Len(docs)][docsWithTerm + 1]

\* natural tfidf(terms, d): the sum over the query's terms of tf * idf.
Tfidf(terms, d, docs) ==
    SumTo([k \in 1..Len(terms) |-> Count(terms[k], docs[d]) * Idf(terms[k], docs)],
          Len(terms))

\* natural tfidfs(text, callback): one measure per document of the index.
Tfidfs(text, docs) == [d \in 1..Len(docs) |-> Tfidf(QueryTerms(text), d, docs)]

\* ----------------------------------------------------------- classification

Unknown == "unknown"

\* The texts the callers classify and add, and the intents they name.
Queries == {Run, My}
Intents == {"go_run", "go_swim"}
AddArgs ==
    {<<Run, "go_run">>, <<Run, "go_swim">>, <<GoRun, "go_swim">>, <<My, "go_run">>,
     <<Empty, "go_run">>, <<Run, "">>}

\* The vector the embedding provider returns for a text.  Against the vector
\* of "rUn" the cosines are 1/2 for "go run" and for "my" (a tie, and the
\* default threshold) and 0 for "swim".
Embed(text) ==
    CASE text = Run   -> <<1, 0, 0, 0>>
      [] text = GoRun -> <<1, 1, 1, 1>>
      [] text = Swim  -> <<0, 1, 0, 0>>
      [] text = My    -> <<1, -1, 1, -1>>
      [] OTHER        -> <<-1, 0, 0, 0>>

\* The confidence of a result, by the way it is built: the two literals, and
\* (similarity * 100).toFixed(2) + "%", whose digits are not modelled.
PercentConfidence   == "toFixed(2)%"
HeuristicConfidence == "0%"
GarbageConfidence   == "Garbage Detected"

RECURSIVE BestMatchLast(_, _, _)
\* The loop with >= in place of >: the last of the best entries wins.
BestMatchLast(scored, k, bestMatch) ==
    IF k > Len(scored) THEN bestMatch
    ELSE BestMatchLast(scored, k + 1,
                       IF GreaterEq(scored[k].similarity, bestMatch.similarity)
                       THEN scored[k] ELSE bestMatch)

\* The loop over the scored examples: a later one replaces bestMatch only when
\* its similarity is greater.
RECURSIVE BestMatch(_, _, _)
BestMatch(scored, k, bestMatch) ==
    IF k > Len(scored) THEN bestMatch
    ELSE BestMatch(scored, k + 1,
                   IF Greater(scored[k].similarity, bestMatch.similarity)
                   THEN scored[k] ELSE bestMatch)

InitialBest == [intent |-> Unknown, similarity |-> Zero]

\* bestMatch of classifyWithTFIDF.
BestTFIDF(query, data, docs) ==
    LET queryVector == Tfidfs(query, docs)
        scored == [k \in 1..Len(data) |->
                     [intent |-> data[k].intent,
                      similarity |-> cosineSimilarity(queryVector, Tfidfs(data[k].text, docs))]]
    IN  BestMatch(scored, 1, InitialBest)

\* classifyWithTFIDF with > in place of >= at the threshold.
ResultTFIDFStrict(bestMatch, t) ==
    IF Greater(bestMatch.similarity, t)
    THEN [intent |-> bestMatch.intent, confidence |-> PercentConfidence]
    ELSE [intent |-> Unknown, confidence |-> PercentConfidence]

\* The result classifyWithTFIDF returns for bestMatch.
ResultTFIDF(bestMatch, t) ==
    IF GreaterEq(bestMatch.similarity, t)
    THEN [intent |-> bestMatch.intent, confidence |-> PercentConfidence]
    ELSE [intent |-> Unknown, confidence |-> PercentConfidence]

\* bestMatch of classifyWithOpenAI, the provider having answered.
BestOpenAI(query, records) ==
    LET queryEmbedding == Embed(query)
        scored == [k \in 1..Len(records) |->
                     [intent |-> records[k].intent,
                      similarity |-> cosineSimilarity(queryEmbedding, records[k].vector)]]
    IN  BestMatch(scored, 1, InitialBest)

\* The search that returns the last record of the intent, not the first.
FindIntentLast(records, intent) ==
    LET hits == {k \in 1..Len(records) : records[k].intent = intent}
    IN  IF hits = {} THEN 0 ELSE CHOOSE k \in hits : \A j \in hits : k >= j

\* this.embeddings.find(e => e.intent === intent): the index of the first, or 0.
FindIntent(records, intent) ==
    LET hits == {k \in 1..Len(records) : records[k].intent = intent}
    IN  IF hits = {} THEN 0 ELSE CHOOSE k \in hits : \A j \in hits : k <= j

\* jaccard < 0.2 for the word sets of the query and of the best entry's text.
JaccardBelow(query, bestText) ==
    LET queryWords == WordSet(query)
        bestTextWords == WordSet(bestText)
        intersection == queryWords \cap bestTextWords
        union == queryWords \cup bestTextWords
    IN  IF Cardinality(union) > 0
        THEN 5 * Cardinality(intersection) < Cardinality(union)
        ELSE TRUE

\* The result classifyWithOpenAI returns for bestMatch.
ResultOpenAI(query, bestMatch, records, t) ==
    LET confidence == PercentConfidence
        bestEntry == FindIntent(records, bestMatch.intent)
    IN  IF Less(bestMatch.similarity, t)
        THEN [intent |-> Unknown, confidence |-> confidence]
        ELSE IF bestEntry # 0 /\ JaccardBelow(query, records[bestEntry].text)
             THEN [intent |-> Unknown, confidence |-> confidence]
             ELSE [intent |-> bestMatch.intent, confidence |-> confidence]

\* ------------------------------------------------------------------ state

MaxDataset == 2
MaxFailures == 1

DefaultBatchSize == 50

VARIABLES
    config,          \* the constructor's argument: each option given or not
    useOpenAI,       \* this.useOpenAI
    threshold,       \* this.threshold
    batchSize,       \* this.batchSize
    dataset,         \* this.dataset: the Examples
    tfidf,           \* this.tfidf: the documents of the index
    embeddings,      \* this.embeddings: the EmbeddingRecords in memory
    file,            \* EMBEDDINGS_FILE: <<>> when absent, else <<its records>>
    cache,           \* this.cache
    validatorCalls,  \* chat completions requested by classify, per query
    providerCalls,   \* embeddings requested by classify, per query
    failures,        \* provider calls that have thrown
    gen,             \* the generateEmbeddings call in progress
    generated,       \* "no", then "ran" once a generateEmbeddings call has
                     \* completed, "stored" once one has stored its records
    last             \* the latest call: its arguments and how it ended

vars == <<config, useOpenAI, threshold, batchSize, dataset, tfidf, embeddings,
          file, cache, validatorCalls, providerCalls, failures, gen, generated, last>>

Example(text, intent) == [text |-> text, intent |-> intent]
Record(text, intent) == [text |-> text, intent |-> intent, vector |-> Embed(text)]

\* An option of the config object: <<>> when not given, else <<value>>.
Given(option) == option # <<>>

\* The config objects the instances are constructed with.
Configs ==
    {[useOpenAI |-> <<>>,      threshold |-> <<>>,            batchSize |-> <<1>>],
     [useOpenAI |-> <<FALSE>>, threshold |-> <<Ratio(0, 1)>>, batchSize |-> <<1>>],
     [useOpenAI |-> <<FALSE>>, threshold |-> <<Ratio(1, 1)>>, batchSize |-> <<>>]}

\* config.dataset, and EMBEDDINGS_FILE as an earlier run may have left it.
ConfigDatasets == {<<>>, <<Example(GoRun, "go_swim")>>}
StoredFiles    == {<<>>, << <<Record(Swim, "go_swim")>> >>}

\* config.useOpenAI !== undefined ? config.useOpenAI : true
InitUseOpenAI(cfg) == IF Given(cfg.useOpenAI) THEN cfg.useOpenAI[1] ELSE TRUE

\* config.threshold || 0.50
InitThreshold(cfg) ==
    IF Given(cfg.threshold) /\ cfg.threshold[1] # Zero
    THEN cfg.threshold[1] ELSE Ratio(1, 2)

\* config.batchSize || 50
InitBatchSize(cfg) == IF Given(cfg.batchSize) THEN cfg.batchSize[1] ELSE DefaultBatchSize

\* loadEmbeddings
LoadEmbeddings(f) == IF f # <<>> THEN f[1] ELSE <<>>

\* this.tfidf = new TfIdf(); this.dataset.forEach(({ text }) => addDocument(text))
IndexOf(data) == [k \in 1..Len(data) |-> BuildDocument(data[k].text)]

\* The intents of the Examples (Lexical mode) or EmbeddingRecords (Embedding
\* mode) whose similarity to the query reaches the threshold.
MatchingIntents(query) ==
    IF useOpenAI
    THEN {embeddings[k].intent : k \in
            {j \in 1..Len(embeddings) :
                GreaterEq(cosineSimilarity(Embed(query), embeddings[j].vector), threshold)}}
    ELSE {dataset[k].intent : k \in
            {j \in 1..Len(dataset) :
                GreaterEq(cosineSimilarity(Tfidfs(query, tfidf), Tfidfs(dataset[j].text, tfidf)),
                          threshold)}}

\* The queries that match the intent and no other.
MatchingOnly(intent) == {q \in Queries : MatchingIntents(q) = {intent}}

\* generateEmbeddings is not running.  While it runs, gen holds its position,
\* its locals i, batch and embeddingsData, and the outcome of each request.
\* No generateEmbeddings call in progress.  Of a call in progress, sent is
\* the slice of Examples the awaited batch was cut from and removed tells
\* whether a removeIntent has run since the batch was sent.
Idle ==
    [pc |-> "idle", i |-> 0, batch |-> <<>>, embeddingsData |-> <<>>, answers |-> <<>>,
     sent |-> <<>>, removed |-> FALSE]

NoCall ==
    [op |-> "none", text |-> Empty, intent |-> "", outcome |-> "ok", hit |-> FALSE,
     result |-> <<>>, best |-> <<>>, validator |-> "none", vcalls |-> 0, pcalls |-> 0,
     only |-> {}]

Init ==
    /\ config \in Configs
    /\ useOpenAI = InitUseOpenAI(config)
    /\ threshold = InitThreshold(config)
    /\ batchSize = InitBatchSize(config)
    /\ dataset \in ConfigDatasets
    /\ file \in StoredFiles
    /\ embeddings = LoadEmbeddings(file)
    /\ tfidf = IndexOf(dataset)
    /\ cache = <<>>
    /\ validatorCalls = [q \in Queries |-> 0]
    /\ providerCalls = [q \in Queries |-> 0]
    /\ failures = 0
    /\ gen = Idle
    /\ generated = "no"
    /\ last = NoCall

\* -------------------------------------------------------------- classify

\* A cache that is never consulted.
CachedNever(query) == FALSE

\* this.cache.has(query)
Cached(query) == query \in DOMAIN cache

\* A call that returned: for classify its result, the bestMatch it found, the
\* validator's answer and the numbers of validator and provider calls it made;
\* for removeIntent the queries that matched only its intent when it was called.
Returned(op, text, intent, result, best, hit, answer, pcalls) ==
    [op |-> op, text |-> text, intent |-> intent, outcome |-> "ok", hit |-> hit,
     result |-> result, best |-> best, validator |-> answer,
     vcalls |-> IF answer = "none" THEN 0 ELSE 1, pcalls |-> pcalls, only |-> {}]

\* A call that has not returned yet (generateEmbeddings between its batches).
Pending(op) ==
    [op |-> op, text |-> Empty, intent |-> "", outcome |-> "pending", hit |-> FALSE,
     result |-> <<>>, best |-> <<>>, validator |-> "none", vcalls |-> 0, pcalls |-> 0,
     only |-> {}]

\* A call that threw.
Threw(op, text, intent, answer, pcalls) ==
    [op |-> op, text |-> text, intent |-> intent, outcome |-> "error", hit |-> FALSE,
     result |-> <<>>, best |-> <<>>, validator |-> answer,
     vcalls |-> IF answer = "none" THEN 0 ELSE 1, pcalls |-> pcalls, only |-> {}]

\* this.cache.set(query, result); return result
StoreAndReturn(query, result, best, answer, pcalls) ==
    /\ cache' = (query :> result) @@ cache
    /\ last' = Returned("classify", query, "", <<result>>, best, FALSE, answer, pcalls)

\* classify(query), the cache holding the query.
ClassifyHit(query) ==
    /\ gen.pc = "idle"
    /\ Cached(query)
    /\ last' = Returned("classify", query, "", <<cache[query]>>, <<>>, TRUE, "none", 0)
    /\ UNCHANGED <<config, useOpenAI, threshold, batchSize, dataset, tfidf, embeddings,
                   file, cache, validatorCalls, providerCalls, failures, gen, generated>>

\* classify(query) through classifyWithTFIDF.
ClassifyTFIDF(query) ==
    /\ gen.pc = "idle"
    /\ ~Cached(query)
    /\ ~useOpenAI
    /\ LET bestMatch == BestTFIDF(query, dataset, tfidf)
       IN  StoreAndReturn(query, ResultTFIDF(bestMatch, threshold), <<bestMatch>>, "none", 0)
    /\ UNCHANGED <<config, useOpenAI, threshold, batchSize, dataset, tfidf, embeddings,
                   file, validatorCalls, providerCalls, failures, gen, generated>>

\* classify(query) through classifyWithOpenAI, the query having no vowel.
ClassifyNoVowel(query) ==
    /\ gen.pc = "idle"
    /\ ~Cached(query)
    /\ useOpenAI
    /\ ~HasVowel(query)
    /\ StoreAndReturn(query, [intent |-> Unknown, confidence |-> HeuristicConfidence],
                      <<>>, "none", 0)
    /\ UNCHANGED <<config, useOpenAI, threshold, batchSize, dataset, tfidf, embeddings,
                   file, validatorCalls, providerCalls, failures, gen, generated>>

\* A validator that fails open: the caught error counts as valid.
IsValidFailOpen(answer) ==
    CASE answer = "valid"   -> TRUE
      [] answer = "invalid" -> FALSE
      [] answer = "error"   -> TRUE

\* isValidQueryOpenAI(query) for each answer of the chat completion: only the
\* answer "valid" is true, and an error is caught and is false.
IsValidQueryOpenAI(answer) ==
    CASE answer = "valid"   -> TRUE
      [] answer = "invalid" -> FALSE
      [] answer = "error"   -> FALSE

ValidatorAnswers == {"valid", "invalid", "error"}

\* classify(query) through classifyWithOpenAI, the validator rejecting the query.
ClassifyGarbage(query) ==
    /\ gen.pc = "idle"
    /\ ~Cached(query)
    /\ useOpenAI
    /\ HasVowel(query)
    /\ \E answer \in ValidatorAnswers :
          /\ ~IsValidQueryOpenAI(answer)
          /\ StoreAndReturn(query, [intent |-> Unknown, confidence |-> GarbageConfidence],
                            <<>>, answer, 0)
    /\ validatorCalls' = [validatorCalls EXCEPT ![query] = @ + 1]
    /\ UNCHANGED <<config, useOpenAI, threshold, batchSize, dataset, tfidf, embeddings,
                   file, providerCalls, failures, gen, generated>>

\* classify(query) through classifyWithOpenAI, the validator accepting the query
\* and the provider returning its embedding.
ClassifyOpenAI(query) ==
    /\ gen.pc = "idle"
    /\ ~Cached(query)
    /\ useOpenAI
    /\ HasVowel(query)
    /\ \E answer \in ValidatorAnswers :
          /\ IsValidQueryOpenAI(answer)
          /\ LET bestMatch == BestOpenAI(query, embeddings)
             IN  StoreAndReturn(query, ResultOpenAI(query, bestMatch, embeddings, threshold),
                                <<bestMatch>>, answer, 1)
    /\ validatorCalls' = [validatorCalls EXCEPT ![query] = @ + 1]
    /\ providerCalls' = [providerCalls EXCEPT ![query] = @ + 1]
    /\ UNCHANGED <<config, useOpenAI, threshold, batchSize, dataset, tfidf, embeddings,
                   file, failures, gen, generated>>

\* The provider error caught inside classify and answered with "unknown".
ClassifyProviderErrorCaught(query) ==
    /\ gen.pc = "idle"
    /\ ~Cached(query)
    /\ useOpenAI
    /\ HasVowel(query)
    /\ failures < MaxFailures
    /\ failures' = failures + 1
    /\ \E answer \in ValidatorAnswers :
          /\ IsValidQueryOpenAI(answer)
          /\ StoreAndReturn(query, [intent |-> Unknown, confidence |-> HeuristicConfidence],
                            <<>>, answer, 1)
    /\ validatorCalls' = [validatorCalls EXCEPT ![query] = @ + 1]
    /\ providerCalls' = [providerCalls EXCEPT ![query] = @ + 1]
    /\ UNCHANGED <<config, useOpenAI, threshold, batchSize, dataset, tfidf, embeddings,
                   file, gen, generated>>

\* classify(query) through classifyWithOpenAI, the provider call throwing: the
\* error leaves classify before the cache is written.
ClassifyProviderError(query) ==
    /\ gen.pc = "idle"
    /\ ~Cached(query)
    /\ useOpenAI
    /\ HasVowel(query)
    /\ failures < MaxFailures
    /\ failures' = failures + 1
    /\ \E answer \in ValidatorAnswers :
          /\ IsValidQueryOpenAI(answer)
          /\ last' = Threw("classify", query, "", answer, 1)
    /\ validatorCalls' = [validatorCalls EXCEPT ![query] = @ + 1]
    /\ providerCalls' = [providerCalls EXCEPT ![query] = @ + 1]
    /\ UNCHANGED <<config, useOpenAI, threshold, batchSize, dataset, tfidf, embeddings,
                   file, cache, gen, generated>>

Classify(query) ==
    \/ ClassifyHit(query)
    \/ ClassifyTFIDF(query)
    \/ ClassifyNoVowel(query)
    \/ ClassifyGarbage(query)
    \/ ClassifyOpenAI(query)
    \/ ClassifyProviderError(query)

\* ------------------------------------------------------------- addIntent

\* The search for the text that stops one entry short.
HasTextButLast(data, text) == \E k \in 1..(Len(data) - 1) : data[k].text = text

\* this.dataset.some(entry => entry.text === text)
HasText(data, text) == \E k \in 1..Len(data) : data[k].text = text

\* The argument check with the intent forgotten.
InvalidTextOnly(text, intent) == text = Empty

\* !text || !intent
Invalid(text, intent) == text = Empty \/ intent = ""

\* addIntent(text, intent) with an empty text or intent: throws at once.
AddIntentInvalid(text, intent) ==
    /\ gen.pc = "idle"
    /\ Invalid(text, intent)
    /\ last' = Threw("addIntent", text, intent, "none", 0)
    /\ UNCHANGED <<config, useOpenAI, threshold, batchSize, dataset, tfidf, embeddings,
                   file, cache, validatorCalls, providerCalls, failures, gen, generated>>

\* addIntent(text, intent) with a text the dataset holds: returns at once.
AddIntentExisting(text, intent) ==
    /\ gen.pc = "idle"
    /\ ~Invalid(text, intent)
    /\ HasText(dataset, text)
    /\ last' = Returned("addIntent", text, intent, <<>>, <<>>, FALSE, "none", 0)
    /\ UNCHANGED <<config, useOpenAI, threshold, batchSize, dataset, tfidf, embeddings,
                   file, cache, validatorCalls, providerCalls, failures, gen, generated>>

\* The push without the addDocument.
PushExampleOnly(text, intent) ==
    /\ dataset' = Append(dataset, Example(text, intent))
    /\ tfidf' = tfidf

\* this.dataset.push({ text, intent }); this.tfidf.addDocument(text)
PushExample(text, intent) ==
    /\ dataset' = Append(dataset, Example(text, intent))
    /\ tfidf' = Append(tfidf, BuildDocument(text))

\* addIntent(text, intent) without the provider (useOpenAI false).
AddIntentLocal(text, intent) ==
    /\ gen.pc = "idle"
    /\ ~Invalid(text, intent)
    /\ ~HasText(dataset, text)
    /\ Len(dataset) < MaxDataset
    /\ ~useOpenAI
    /\ PushExample(text, intent)
    /\ last' = Returned("addIntent", text, intent, <<>>, <<>>, FALSE, "none", 0)
    /\ UNCHANGED <<config, useOpenAI, threshold, batchSize, embeddings, file, cache,
                   validatorCalls, providerCalls, failures, gen, generated>>

\* addIntent(text, intent), the provider returning the embedding of the text.
AddIntentOpenAI(text, intent) ==
    /\ gen.pc = "idle"
    /\ ~Invalid(text, intent)
    /\ ~HasText(dataset, text)
    /\ Len(dataset) < MaxDataset
    /\ useOpenAI
    /\ PushExample(text, intent)
    /\ embeddings' = Append(embeddings, Record(text, intent))
    /\ file' = <<embeddings'>>
    /\ last' = Returned("addIntent", text, intent, <<>>, <<>>, FALSE, "none", 1)
    /\ UNCHANGED <<config, useOpenAI, threshold, batchSize, cache, validatorCalls,
                   providerCalls, failures, gen, generated>>

\* addIntent(text, intent), the provider call throwing: the Example and its
\* document are already pushed when the error leaves addIntent.
AddIntentProviderError(text, intent) ==
    /\ gen.pc = "idle"
    /\ ~Invalid(text, intent)
    /\ ~HasText(dataset, text)
    /\ Len(dataset) < MaxDataset
    /\ useOpenAI
    /\ PushExample(text, intent)
    /\ failures < MaxFailures
    /\ failures' = failures + 1
    /\ last' = Threw("addIntent", text, intent, "none", 1)
    /\ UNCHANGED <<config, useOpenAI, threshold, batchSize, embeddings, file, cache,
                   validatorCalls, providerCalls, gen, generated>>

AddIntent(text, intent) ==
    \/ AddIntentInvalid(text, intent)
    \/ AddIntentExisting(text, intent)
    \/ AddIntentLocal(text, intent)
    \/ AddIntentOpenAI(text, intent)
    \/ AddIntentProviderError(text, intent)

\* ---------------------------------------------------------- removeIntent

RECURSIVE FilterOut(_, _)
\* seq.filter(({ intent }) => intent !== intentToRemove)
FilterOut(seq, intentToRemove) ==
    IF seq = <<>> THEN <<>>
    ELSE IF Head(seq).intent # intentToRemove
         THEN <<Head(seq)>> \o FilterOut(Tail(seq), intentToRemove)
         ELSE FilterOut(Tail(seq), intentToRemove)

\* The dataset filtered and the index left as it was.
RemoveExamplesStaleIndex(intentToRemove) ==
    /\ dataset' = FilterOut(dataset, intentToRemove)
    /\ tfidf' = tfidf

\* The dataset of removeIntent and the index rebuilt from it.
RemoveExamples(intentToRemove) ==
    /\ dataset' = FilterOut(dataset, intentToRemove)
    /\ tfidf' = IndexOf(dataset')

\* The records filtered and the file rewritten whatever the mode.
RemoveRecordsAlways(intentToRemove) ==
    /\ embeddings' = FilterOut(embeddings, intentToRemove)
    /\ file' = <<embeddings'>>

\* The file rewritten without the intent, the records in memory kept.
RemoveRecordsFileOnly(intentToRemove) ==
    IF useOpenAI
    THEN /\ embeddings' = embeddings
         /\ file' = <<FilterOut(embeddings, intentToRemove)>>
    ELSE UNCHANGED <<embeddings, file>>

\* The records in memory filtered, the file not rewritten.
RemoveRecordsMemoryOnly(intentToRemove) ==
    IF useOpenAI
    THEN /\ embeddings' = FilterOut(embeddings, intentToRemove)
         /\ file' = file
    ELSE UNCHANGED <<embeddings, file>>

\* The embeddings of removeIntent when useOpenAI is set, and their file.
RemoveRecords(intentToRemove) ==
    IF useOpenAI
    THEN /\ embeddings' = FilterOut(embeddings, intentToRemove)
         /\ file' = <<embeddings'>>
    ELSE UNCHANGED <<embeddings, file>>

\* The removal that also empties the cache.
RemoveIntentClearingCache(intentToRemove) ==
    /\ gen.pc = "idle"
    /\ RemoveExamples(intentToRemove)
    /\ RemoveRecords(intentToRemove)
    /\ cache' = <<>>
    /\ last' = [Returned("removeIntent", Empty, intentToRemove, <<>>, <<>>, FALSE, "none", 0)
                  EXCEPT !.only = MatchingOnly(intentToRemove)]
    /\ UNCHANGED <<config, useOpenAI, threshold, batchSize, validatorCalls,
                   providerCalls, failures, gen, generated>>

\* removeIntent(intentToRemove)
RemoveIntent(intentToRemove) ==
    /\ gen.pc = "idle"
    /\ RemoveExamples(intentToRemove)
    /\ RemoveRecords(intentToRemove)
    /\ last' = [Returned("removeIntent", Empty, intentToRemove, <<>>, <<>>, FALSE, "none", 0)
                  EXCEPT !.only = MatchingOnly(intentToRemove)]
    /\ UNCHANGED <<config, useOpenAI, threshold, batchSize, cache, validatorCalls,
                   providerCalls, failures, gen, generated>>

\* ---------------------------------------------------- generateEmbeddings

\* let embeddingsData = []; the loop starts at i = 0.  The callers generate
\* embeddings in OpenAI mode only, as the README says of the method.
GenerateStart ==
    /\ gen.pc = "idle"
    /\ useOpenAI
    /\ gen' = [Idle EXCEPT !.pc = "loop"]
    /\ last' = Pending("generateEmbeddings")
    /\ UNCHANGED <<config, useOpenAI, threshold, batchSize, dataset, tfidf, embeddings,
                   file, cache, validatorCalls, providerCalls, failures, generated>>

\* this.dataset.slice(i, i + this.batchSize)
Slice(data, i, size) ==
    [k \in 1..(IF Len(data) - i < size THEN Len(data) - i ELSE size) |-> data[i + k]]

\* this.dataset.slice(i, i + this.batchSize).map(item => item.text)
BatchTexts(data, i, size) ==
    [k \in 1..(IF Len(data) - i < size THEN Len(data) - i ELSE size) |-> data[i + k].text]

\* i < this.dataset.length: the batch is cut and sent to the provider.
GenerateRequest ==
    /\ gen.pc = "loop"
    /\ gen.i < Len(dataset)
    /\ gen' = [gen EXCEPT !.pc = "await", !.batch = BatchTexts(dataset, gen.i, batchSize),
                          !.sent = Slice(dataset, gen.i, batchSize)]
    /\ UNCHANGED <<config, useOpenAI, threshold, batchSize, dataset, tfidf, embeddings,
                   file, cache, validatorCalls, providerCalls, failures, generated, last>>

\* The records read from the start of the dataset, without the offset i.
BatchRecordsNoOffset(data, i, batch) ==
    LET n == IF Len(data) - i < Len(batch)
             THEN (IF Len(data) - i < 0 THEN 0 ELSE Len(data) - i)
             ELSE Len(batch)
    IN  [k \in 1..n |-> [text |-> data[k].text, intent |-> data[k].intent,
                         vector |-> Embed(batch[k])]]

\* batchEmbeddings.forEach: the record of index k takes its text and intent
\* from this.dataset[i + k] as it is now and its vector from the answer for
\* the k-th text sent; a missing dataset[i + k] throws and ends the batch.
BatchRecords(data, i, batch) ==
    LET n == IF Len(data) - i < Len(batch)
             THEN (IF Len(data) - i < 0 THEN 0 ELSE Len(data) - i)
             ELSE Len(batch)
    IN  [k \in 1..n |-> [text |-> data[i + k].text, intent |-> data[i + k].intent,
                         vector |-> Embed(batch[k])]]

\* The provider answers the batch.
GenerateBatchDone ==
    /\ gen.pc = "await"
    /\ gen' = [gen EXCEPT !.pc = "loop", !.i = @ + batchSize, !.batch = <<>>,
                          !.sent = <<>>, !.removed = FALSE,
                          !.embeddingsData = @ \o BatchRecords(dataset, gen.i, gen.batch),
                          !.answers = Append(@, "ok")]
    /\ UNCHANGED <<config, useOpenAI, threshold, batchSize, dataset, tfidf, embeddings,
                   file, cache, validatorCalls, providerCalls, failures, generated, last>>

\* The failure of a batch that ends the loop.
GenerateBatchFailedBreak ==
    /\ gen.pc = "await"
    /\ failures < MaxFailures
    /\ failures' = failures + 1
    /\ gen' = [gen EXCEPT !.pc = "loop", !.i = Len(dataset) + batchSize, !.batch = <<>>,
                          !.sent = <<>>, !.removed = FALSE,
                          !.answers = Append(@, "failed")]
    /\ UNCHANGED <<config, useOpenAI, threshold, batchSize, dataset, tfidf, embeddings,
                   file, cache, validatorCalls, providerCalls, generated, last>>

\* The provider call throws: the error is caught and the batch is skipped.
GenerateBatchFailed ==
    /\ gen.pc = "await"
    /\ failures < MaxFailures
    /\ failures' = failures + 1
    /\ gen' = [gen EXCEPT !.pc = "loop", !.i = @ + batchSize, !.batch = <<>>,
                          !.sent = <<>>, !.removed = FALSE,
                          !.answers = Append(@, "failed")]
    /\ UNCHANGED <<config, useOpenAI, threshold, batchSize, dataset, tfidf, embeddings,
                   file, cache, validatorCalls, providerCalls, generated, last>>

\* The save that adds the new records to the ones in memory.
GenerateFinishAppend ==
    /\ gen.pc = "loop"
    /\ gen.i >= Len(dataset)
    /\ IF Len(gen.embeddingsData) > 0
       THEN /\ file' = <<embeddings \o gen.embeddingsData>>
            /\ embeddings' = embeddings \o gen.embeddingsData
            /\ generated' = "stored"
       ELSE /\ generated' = IF generated = "no" THEN "ran" ELSE generated
            /\ UNCHANGED <<file, embeddings>>
    /\ gen' = Idle
    /\ last' = Returned("generateEmbeddings", Empty, "", <<>>, <<>>, FALSE, "none", 0)
    /\ UNCHANGED <<config, useOpenAI, threshold, batchSize, dataset, tfidf, cache,
                   validatorCalls, providerCalls, failures>>

\* The loop is over: the records are written and kept when there are any.
GenerateFinish ==
    /\ gen.pc = "loop"
    /\ gen.i >= Len(dataset)
    /\ IF Len(gen.embeddingsData) > 0
       THEN /\ file' = <<gen.embeddingsData>>
            /\ embeddings' = gen.embeddingsData
            /\ generated' = "stored"
       ELSE /\ generated' = IF generated = "no" THEN "ran" ELSE generated
            /\ UNCHANGED <<file, embeddings>>
    /\ gen' = Idle
    /\ last' = Returned("generateEmbeddings", Empty, "", <<>>, <<>>, FALSE, "none", 0)
    /\ UNCHANGED <<config, useOpenAI, threshold, batchSize, dataset, tfidf, cache,
                   validatorCalls, providerCalls, failures>>

GenerateEmbeddings ==
    \/ GenerateStart
    \/ GenerateRequest
    \/ GenerateBatchDone
    \/ GenerateBatchFailed
    \/ GenerateFinish

\* ------------------------------------------------------------------ spec

Next ==
    \/ \E query \in Queries : Classify(query)
    \/ \E args \in AddArgs : AddIntent(args[1], args[2])
    \/ \E intent \in Intents : RemoveIntent(intent)
    \/ GenerateEmbeddings

Spec == Init /\ [][Next]_vars

\* ---------------------------------------- calls during an awaited batch

\* While generateEmbeddings awaits the provider the event loop is free, and a
\* call made on the same instance runs.  generateEmbeddings runs with
\* useOpenAI set, so addIntent takes its provider branch; what addIntent does
\* after its own await touches this.embeddings and the file only, which
\* generateEmbeddings reads nowhere, so the call is taken in one step.

\* addIntent(text, intent) while a batch is awaited, refused at line 114 or 115.
AddIntentAwaitedRefused(text, intent) ==
    /\ gen.pc = "await"
    /\ Invalid(text, intent) \/ HasText(dataset, text)
    /\ last' = IF Invalid(text, intent)
               THEN Threw("addIntent", text, intent, "none", 0)
               ELSE Returned("addIntent", text, intent, <<>>, <<>>, FALSE, "none", 0)
    /\ UNCHANGED <<config, useOpenAI, threshold, batchSize, dataset, tfidf, embeddings,
                   file, cache, validatorCalls, providerCalls, failures, gen, generated>>

\* addIntent(text, intent) while a batch is awaited, its provider call answered.
AddIntentAwaitedOpenAI(text, intent) ==
    /\ gen.pc = "await"
    /\ ~Invalid(text, intent)
    /\ ~HasText(dataset, text)
    /\ Len(dataset) < MaxDataset
    /\ PushExample(text, intent)
    /\ embeddings' = Append(embeddings, Record(text, intent))
    /\ file' = <<embeddings'>>
    /\ last' = Returned("addIntent", text, intent, <<>>, <<>>, FALSE, "none", 1)
    /\ UNCHANGED <<config, useOpenAI, threshold, batchSize, cache, validatorCalls,
                   providerCalls, failures, gen, generated>>

\* addIntent(text, intent) while a batch is awaited, its provider call throwing.
AddIntentAwaitedError(text, intent) ==
    /\ gen.pc = "await"
    /\ ~Invalid(text, intent)
    /\ ~HasText(dataset, text)
    /\ Len(dataset) < MaxDataset
    /\ PushExample(text, intent)
    /\ failures < MaxFailures
    /\ failures' = failures + 1
    /\ last' = Threw("addIntent", text, intent, "none", 1)
    /\ UNCHANGED <<config, useOpenAI, threshold, batchSize, embeddings, file, cache,
                   validatorCalls, providerCalls, gen, generated>>

AddIntentAwaited(text, intent) ==
    \/ AddIntentAwaitedRefused(text, intent)
    \/ AddIntentAwaitedOpenAI(text, intent)
    \/ AddIntentAwaitedError(text, intent)

\* removeIntent(intentToRemove) while a batch is awaited: it has no await of
\* its own and runs to its end.
RemoveIntentAwaited(intentToRemove) ==
    /\ gen.pc = "await"
    /\ RemoveExamples(intentToRemove)
    /\ RemoveRecords(intentToRemove)
    /\ gen' = [gen EXCEPT !.removed = TRUE]
    /\ last' = [Returned("removeIntent", Empty, intentToRemove, <<>>, <<>>, FALSE, "none", 0)
                  EXCEPT !.only = MatchingOnly(intentToRemove)]
    /\ UNCHANGED <<config, useOpenAI, threshold, batchSize, cache, validatorCalls,
                   providerCalls, failures, generated>>

\* generateEmbeddings() called for the first time on the instance.  The
\* method reads this.dataset and this.batchSize only, so a later call meets
\* nothing the first cannot meet.
GenerateFirstStart ==
    /\ generated = "no"
    /\ GenerateStart

\* The calls that write the dataset or the vector store, with the two that
\* can run while a batch is awaited; classify writes neither and is left out.
NextInterleaved ==
    \/ \E args \in AddArgs : AddIntent(args[1], args[2])
    \/ \E intent \in Intents : RemoveIntent(intent)
    \/ GenerateFirstStart
    \/ GenerateRequest
    \/ GenerateBatchDone
    \/ GenerateBatchFailed
    \/ GenerateFinish
    \/ \E args \in AddArgs : AddIntentAwaited(args[1], args[2])
    \/ \E intent \in Intents : RemoveIntentAwaited(intent)

SpecInterleaved == Init /\ [][NextInterleaved]_vars

\* ------------------------------------------------------------- properties

\* The latest call is a classify that returned after running the similarity
\* search (no cache hit, no garbage rejection).
Searched == last.op = "classify" /\ last.outcome = "ok" /\ last.best # <<>>

\* The configured threshold: the one the constructor was given, or the
\* documented default of 0.50 when it was given none.
ConfiguredThreshold ==
    IF config.threshold = <<>> THEN Ratio(1, 2) ELSE config.threshold[1]

\* The Jaccard gate of Embedding mode rejects the latest query: the first
\* record of the winning intent shares less than a fifth of its words.
JaccardRejects ==
    LET first == FindIntent(embeddings, last.best[1].intent)
    IN  first # 0 /\ JaccardBelow(last.text, embeddings[first].text)

\* C1 as stated: classify returns the matched intent if and only if the best
\* similarity s reaches the configured threshold t, and "unknown" otherwise.
C1_Original ==
    Searched =>
        last.result[1].intent =
            IF GreaterEq(last.best[1].similarity, ConfiguredThreshold)
            THEN last.best[1].intent ELSE Unknown

\* C1, amended: with t = this.threshold (the configured value, or 0.50 when it
\* is absent or 0), Lexical mode returns the best-scoring intent if and only
\* if s >= t, equality being a match; Embedding mode returns it if and only if
\* s >= t and the Jaccard gate does not reject; both return "unknown" otherwise.
C1_Threshold ==
    /\ threshold = IF config.threshold \in {<<>>, <<Ratio(0, 1)>>}
                   THEN Ratio(1, 2) ELSE config.threshold[1]
    /\ Searched =>
          last.result[1].intent =
              IF ~GreaterEq(last.best[1].similarity, threshold) THEN Unknown
              ELSE IF useOpenAI /\ JaccardRejects THEN Unknown
              ELSE last.best[1].intent

\* C1 happens: a search whose best similarity equals the threshold exactly
\* returned the matched intent.
C1_Witness ==
    /\ Searched
    /\ last.best[1].similarity = threshold
    /\ last.best[1].intent # Unknown
    /\ last.result[1].intent = last.best[1].intent

\* The latest call is an addIntent that returned, and the state is ready for
\* the amended C2: the added pair is the newest Example (Lexical mode) or
\* EmbeddingRecord (Embedding mode), the text has no cache entry, the
\* threshold is below 1, the text has an indexed term (Lexical mode), no older
\* Example or record of another intent is as similar to the text as the text
\* itself, and (Embedding mode) the first record of the intent shares at
\* least a fifth of its words with the text.
C2_Ready ==
    /\ last.op = "addIntent"
    /\ last.outcome = "ok"
    /\ last.text \notin DOMAIN cache
    /\ Less(threshold, One)
    /\ IF useOpenAI
       THEN /\ Len(embeddings) > 0
            /\ embeddings[Len(embeddings)] = Record(last.text, last.intent)
            /\ \A k \in 1..(Len(embeddings) - 1) :
                  embeddings[k].intent # last.intent =>
                      ~GreaterEq(cosineSimilarity(Embed(last.text), embeddings[k].vector),
                                 cosineSimilarity(Embed(last.text),
                                                  embeddings[Len(embeddings)].vector))
            /\ ~JaccardBelow(last.text,
                             embeddings[FindIntent(embeddings, last.intent)].text)
       ELSE /\ Len(dataset) > 0
            /\ dataset[Len(dataset)] = Example(last.text, last.intent)
            /\ BuildDocument(last.text) # <<>>
            /\ \A k \in 1..(Len(dataset) - 1) :
                  dataset[k].intent # last.intent =>
                      ~GreaterEq(cosineSimilarity(Tfidfs(last.text, tfidf),
                                                  Tfidfs(dataset[k].text, tfidf)),
                                 cosineSimilarity(Tfidfs(last.text, tfidf),
                                                  Tfidfs(last.text, tfidf)))

\* C2 as stated: an addIntent(text, intent) that completes, followed at once by
\* a classify(text) that returns, yields that intent, in both modes.
C2_Original ==
    [][(/\ last.op = "addIntent"
        /\ last.outcome = "ok"
        /\ last'.op = "classify"
        /\ last'.text = last.text
        /\ last'.outcome = "ok")
       => last'.result[1].intent = last.intent]_vars

\* C2, amended: after an addIntent that left the state C2_Ready describes, a
\* classify of the added text that runs the similarity search (the garbage
\* filter lets the text through and the provider answers) returns the intent.
C2_AddThenClassify ==
    [][(/\ C2_Ready
        /\ last'.op = "classify"
        /\ last'.text = last.text
        /\ last'.outcome = "ok"
        /\ last'.best # <<>>)
       => last'.result[1].intent = last.intent]_vars

\* C2 happens: in Embedding mode an addIntent has added a second record, of
\* another intent than the first, and the state is ready for the classify.
C2_Witness ==
    /\ C2_Ready
    /\ useOpenAI
    /\ last.pcalls = 1
    /\ Len(embeddings) = 2
    /\ embeddings[1].intent # last.intent

\* C3 as stated: after removeIntent(i) neither the dataset nor the vector
\* store, in memory and in its file, holds an entry of intent i.
C3_Original ==
    (last.op = "removeIntent") =>
        /\ \A k \in 1..Len(dataset) : dataset[k].intent # last.intent
        /\ \A k \in 1..Len(embeddings) : embeddings[k].intent # last.intent
        /\ file # <<>> => \A k \in 1..Len(file[1]) : file[1][k].intent # last.intent

\* C3, amended: after removeIntent(i) the dataset holds no Example of intent i
\* and, in Embedding mode, the records in memory and the rewritten file hold no
\* EmbeddingRecord of intent i (Lexical mode leaves the vector store alone).
C3_Removed ==
    (last.op = "removeIntent") =>
        /\ \A k \in 1..Len(dataset) : dataset[k].intent # last.intent
        /\ useOpenAI =>
              /\ \A k \in 1..Len(embeddings) : embeddings[k].intent # last.intent
              /\ file # <<>>
              /\ \A k \in 1..Len(file[1]) : file[1][k].intent # last.intent

\* C3 happens: a removeIntent in Embedding mode removed the records a query
\* matched, and other records remain.
C3_Witness ==
    /\ last.op = "removeIntent"
    /\ useOpenAI
    /\ last.only # {}
    /\ Len(embeddings) > 0

\* C4 as stated: a query that matched only intent i, and for which classify
\* returned i, classifies as "unknown" after removeIntent(i).
C4_Original ==
    [][(/\ last.op = "removeIntent"
        /\ last'.op = "classify"
        /\ last'.outcome = "ok"
        /\ last'.text \in last.only
        /\ last'.text \in DOMAIN cache
        /\ cache[last'.text].intent = last.intent)
       => last'.result[1].intent = Unknown]_vars

\* C4, amended: in Embedding mode the classify made directly after
\* removeIntent(i), of a query that matched only records of intent i and has no
\* cache entry, returns "unknown".
C4_RemoveThenClassify ==
    [][(/\ last.op = "removeIntent"
        /\ useOpenAI
        /\ last'.op = "classify"
        /\ last'.outcome = "ok"
        /\ last'.text \in last.only
        /\ last'.text \notin DOMAIN cache)
       => last'.result[1].intent = Unknown]_vars

\* C4 happens: a removeIntent in Embedding mode removed the only intent an
\* uncached query matched, and records of another intent remain.
C4_Witness ==
    /\ last.op = "removeIntent"
    /\ useOpenAI
    /\ \E q \in last.only : q \notin DOMAIN cache
    /\ Len(embeddings) > 0

\* C5 as stated: over any sequence of classify calls the validator and the
\* provider are each invoked at most once per query string.
C5_Original ==
    \A q \in Queries : validatorCalls[q] <= 1 /\ providerCalls[q] <= 1

\* C5, amended: once classify has returned a result for a query, no later
\* classify invokes the validator or the provider for it; before that, each is
\* invoked at most once more than provider calls have failed.
C5_CachedNoCalls ==
    [][\A q \in Queries :
          /\ q \in DOMAIN cache =>
                /\ validatorCalls'[q] = validatorCalls[q]
                /\ providerCalls'[q] = providerCalls[q]
          /\ validatorCalls'[q] <= failures' + 1
          /\ providerCalls'[q] <= failures' + 1]_vars

\* C5 happens: a classify was answered from the cache for a query that had
\* gone to the validator and the provider once.
C5_Witness ==
    /\ last.op = "classify"
    /\ last.hit
    /\ validatorCalls[last.text] = 1
    /\ providerCalls[last.text] = 1

\* A text none of whose characters is a vowel, in either case.
VowelFree(text) ==
    \A k \in 1..Len(text) :
        text[k] \notin {"a", "e", "i", "o", "u", "A", "E", "I", "O", "U"}

\* C6: in Embedding mode classify of a query without a vowel returns
\* "unknown", and neither the validator nor the provider is ever called for it.
C6_NoVowel ==
    \A q \in Queries :
        (useOpenAI /\ VowelFree(q)) =>
            /\ validatorCalls[q] = 0
            /\ providerCalls[q] = 0
            /\ (last.op = "classify" /\ last.text = q) =>
                  /\ last.outcome = "ok"
                  /\ last.result[1].intent = Unknown
                  /\ last.vcalls = 0
                  /\ last.pcalls = 0

\* C6 happens: Embedding mode has just computed the result of a query that has
\* no vowel.
C6_Witness ==
    /\ useOpenAI
    /\ last.op = "classify"
    /\ VowelFree(last.text)
    /\ ~last.hit

\* C7: when the validator call errors, classify returns "unknown" with the
\* garbage confidence, raises nothing and does not call the provider.
C7_FailClosed ==
    (last.op = "classify" /\ last.validator = "error") =>
        /\ last.outcome = "ok"
        /\ last.result = <<[intent |-> Unknown, confidence |-> GarbageConfidence]>>
        /\ last.pcalls = 0
        /\ providerCalls[last.text] <= failures

\* C7 happens: the validator call of a classify has errored.
C7_Witness == last.op = "classify" /\ last.validator = "error"

\* C8 as stated: in Embedding mode, once generateEmbeddings has run, there are
\* as many EmbeddingRecords as Examples after every call.
C8_Original ==
    (useOpenAI /\ generated # "no" /\ gen.pc = "idle") => Len(embeddings) = Len(dataset)

\* C8, amended: in Embedding mode, once a generateEmbeddings call has stored
\* its records, after every call each EmbeddingRecord has the text and intent
\* of an Example, there are no more records than Examples, and there are as
\* many as long as no provider call has failed.
C8_RecordsOfExamples ==
    (useOpenAI /\ generated = "stored" /\ gen.pc = "idle") =>
        /\ \A k \in 1..Len(embeddings) :
              \E j \in 1..Len(dataset) :
                  dataset[j] = Example(embeddings[k].text, embeddings[k].intent)
        /\ Len(embeddings) <= Len(dataset)
        /\ failures = 0 => Len(embeddings) = Len(dataset)

\* C8 happens: after a generateEmbeddings that stored its records an addIntent
\* has added a second Example with its record.
C8_Witness ==
    /\ useOpenAI
    /\ generated = "stored"
    /\ gen.pc = "idle"
    /\ last.op = "addIntent"
    /\ last.pcalls = 1
    /\ last.outcome = "ok"
    /\ Len(dataset) = 2

\* C9: the index holds as many documents as the dataset holds Examples.
C9_IndexSize == Len(tfidf) = Len(dataset)

\* C9 happens: a removeIntent has removed the Example a query matched and has
\* left another, so the index was rebuilt over a smaller dataset.
C9_Witness ==
    /\ last.op = "removeIntent"
    /\ ~useOpenAI
    /\ last.only # {}
    /\ Len(dataset) = 1

\* C10: addIntent with an empty text or an empty intent throws, calls no
\* provider, and leaves the dataset, the index, the vector store and the cache
\* as they were.
C10_InvalidAdd ==
    [][(last'.op = "addIntent" /\ (last'.text = Empty \/ last'.intent = ""))
       => /\ last'.outcome = "error"
          /\ last'.pcalls = 0
          /\ UNCHANGED <<dataset, tfidf, embeddings, file, cache, providerCalls>>]_vars

\* C10 happens: an addIntent with a text and an empty intent has thrown on an
\* instance that holds Examples.
C10_Witness ==
    /\ last.op = "addIntent"
    /\ last.text # Empty
    /\ last.intent = ""
    /\ last.outcome = "error"
    /\ Len(dataset) > 0

\* No two Examples of the dataset have the same text.
UniqueTexts ==
    \A j, k \in 1..Len(dataset) : dataset[j].text = dataset[k].text => j = k

\* C11: the texts of the dataset stay unique, and an addIntent with a text the
\* dataset already holds returns without changing the dataset, the index or
\* the vector store and without a provider call, whatever intent it is given.
C11_ExistingText ==
    [][/\ UniqueTexts => UniqueTexts'
       /\ (/\ last'.op = "addIntent"
           /\ last'.text # Empty
           /\ last'.intent # ""
           /\ \E k \in 1..Len(dataset) : dataset[k].text = last'.text)
          => /\ last'.outcome = "ok"
             /\ last'.pcalls = 0
             /\ UNCHANGED <<dataset, tfidf, embeddings, file, providerCalls>>]_vars

\* C11 happens: in Embedding mode an addIntent has returned for a text the
\* dataset holds under another intent, and the dataset holds two Examples.
C11_Witness ==
    /\ useOpenAI
    /\ last.op = "addIntent"
    /\ last.outcome = "ok"
    /\ last.pcalls = 0
    /\ Len(dataset) = 2
    /\ UniqueTexts
    /\ \E k \in 1..Len(dataset) :
          dataset[k].text = last.text /\ dataset[k].intent # last.intent

RECURSIVE AnsweredFrom(_, _, _, _)
\* The records, in dataset order from index k on, of the Examples whose batch
\* the provider answered.
AnsweredFrom(data, answers, size, k) ==
    IF k > Len(data) THEN <<>>
    ELSE (IF answers[((k - 1) \div size) + 1] = "ok"
          THEN <<Record(data[k].text, data[k].intent)>> ELSE <<>>)
         \o AnsweredFrom(data, answers, size, k + 1)

\* C12: in generateEmbeddings a failed batch is skipped and the call goes on
\* with the next one; when the call returns, without an error, every batch
\* has been requested and the stored embeddings (memory and file) are exactly
\* the records of the answered batches in dataset order, or are left as they
\* were when no batch was answered.
C12_PartialFailure ==
    [][/\ (gen.pc = "await" /\ gen'.pc # "await") =>
              /\ gen'.pc = "loop"
              /\ gen'.i = gen.i + batchSize
              /\ last'.outcome = "pending"
       /\ (gen.pc = "loop" /\ gen'.pc = "idle") =>
              /\ Len(gen.answers) = (Len(dataset) + batchSize - 1) \div batchSize
              /\ last'.op = "generateEmbeddings"
              /\ last'.outcome = "ok"
              /\ LET stored == AnsweredFrom(dataset, gen.answers, batchSize, 1)
                 IN  IF stored # <<>>
                     THEN embeddings' = stored /\ file' = <<stored>>
                     ELSE UNCHANGED <<embeddings, file>>]_vars

\* C12 happens: a generateEmbeddings over two Examples has returned after one
\* of its two batches failed, and has stored the record of the other.
C12_Witness ==
    /\ last.op = "generateEmbeddings"
    /\ last.outcome = "ok"
    /\ failures > 0
    /\ Len(dataset) = 2
    /\ Len(embeddings) = 1
    /\ generated = "stored"
    /\ file = <<embeddings>>

\* C13: classify raises exactly when its provider call fails, which happens in
\* Embedding mode only, after the query passed the garbage filter; the error
\* reaches the caller and nothing is cached.  In Lexical mode, on a garbage
\* rejection and on a low similarity classify returns a result.
C13_RaisesOnProviderError ==
    [][(last'.op = "classify") =>
          /\ last'.outcome = "error" <=> failures' = failures + 1
          /\ last'.outcome = "error" =>
                /\ useOpenAI
                /\ last'.pcalls = 1
                /\ last'.validator = "valid"
                /\ last'.result = <<>>
                /\ cache' = cache
          /\ last'.outcome # "error" =>
                /\ last'.outcome = "ok"
                /\ Len(last'.result) = 1
          /\ (~useOpenAI \/ last'.validator \in {"invalid", "error"} \/ last'.pcalls = 0)
                => last'.outcome = "ok"]_vars

\* C13 happens: the provider call of an Embedding-mode classify has failed
\* and classify has raised, with stored records to search.
C13_Witness ==
    /\ useOpenAI
    /\ last.op = "classify"
    /\ last.outcome = "error"
    /\ last.pcalls = 1
    /\ Len(embeddings) > 0

\* C14: a cache entry, once written, stays as it is; addIntent, removeIntent
\* and generateEmbeddings leave the cache unchanged; and a classify of a
\* cached query returns the cached result and changes nothing of the instance.
C14_CacheKept ==
    [][/\ \A q \in DOMAIN cache : q \in DOMAIN cache' /\ cache'[q] = cache[q]
       /\ last'.op \in {"addIntent", "removeIntent", "generateEmbeddings"} => cache' = cache
       /\ (last'.op = "classify" /\ last'.text \in DOMAIN cache) =>
              /\ last'.outcome = "ok"
              /\ last'.result = <<cache[last'.text]>>
              /\ last'.vcalls = 0
              /\ last'.pcalls = 0
              /\ UNCHANGED <<dataset, tfidf, embeddings, file, cache,
                             validatorCalls, providerCalls, failures>>]_vars

\* C14 happens: a classify has returned from the cache an intent that
\* removeIntent has since removed from the dataset and the vector store.
C14_Witness ==
    /\ last.op = "classify"
    /\ last.hit
    /\ last.result[1].intent \in Intents
    /\ \A k \in 1..Len(dataset) : dataset[k].intent # last.result[1].intent
    /\ \A k \in 1..Len(embeddings) : embeddings[k].intent # last.result[1].intent

\* C15 as stated: an instance constructed without the useOpenAI option has
\* useOpenAI = false, and its classify and addIntent calls never invoke the
\* query validator or the embedding provider.
C15_DefaultLexical ==
    (config.useOpenAI = <<>> /\ last.op \in {"classify", "addIntent"}) =>
        /\ ~useOpenAI
        /\ \A q \in Queries : validatorCalls[q] = 0 /\ providerCalls[q] = 0
        /\ last.vcalls = 0
        /\ last.pcalls = 0

\* The similarity of each Example (Lexical mode) or EmbeddingRecord (Embedding
\* mode) to the latest query, and its intent, in stored order.
Scores ==
    IF useOpenAI
    THEN [k \in 1..Len(embeddings) |->
            [intent |-> embeddings[k].intent,
             similarity |-> cosineSimilarity(Embed(last.text), embeddings[k].vector)]]
    ELSE [k \in 1..Len(dataset) |->
            [intent |-> dataset[k].intent,
             similarity |-> cosineSimilarity(Tfidfs(last.text, tfidf),
                                             Tfidfs(dataset[k].text, tfidf))]]

\* Entry k attains the best similarity: it has one (not NaN) and none is greater.
AttainsBest(k) ==
    /\ ~Scores[k].similarity.nan
    /\ \A j \in 1..Len(Scores) : ~Greater(Scores[j].similarity, Scores[k].similarity)

SearchedAtThreshold ==
    /\ Searched
    /\ useOpenAI
    /\ GreaterEq(last.best[1].similarity, threshold)

\* The entries of seq that have the winning intent of the latest search.
OfWinningIntent(seq) == {k \in 1..Len(seq) : seq[k].intent = last.best[1].intent}

\* The Jaccard similarity of the word sets of the latest query and of the
\* text is below 0.20 (0 when both sets are empty).
JaccardUnderFifth(text) ==
    LET a == WordSet(last.text)
        b == WordSet(text)
    IN  5 * Cardinality(a \cap b) < Cardinality(a \cup b) \/ a \cup b = {}

C18_LexicalLocal ==
    [][(~useOpenAI /\ last'.op \in {"classify", "addIntent", "removeIntent"}) =>
          /\ last'.vcalls = 0
          /\ last'.pcalls = 0
          /\ last'.validator = "none"
          /\ UNCHANGED <<embeddings, file, validatorCalls, providerCalls, failures>>
          /\ (last'.op = "classify" /\ ~last'.hit) =>
                 /\ last'.outcome = "ok"
                 /\ last'.best # <<>>
                 /\ last'.result[1].confidence = PercentConfidence]_vars

\* C18 happens: in Lexical mode, over a vector store that holds a record,
\* removeIntent has been given that record's intent, has left an Example of
\* another intent in the dataset, and the record is still stored.
C18_Witness ==
    /\ ~useOpenAI
    /\ last.op = "removeIntent"
    /\ Len(dataset) = 1
    /\ Len(embeddings) = 1
    /\ embeddings[1].intent = last.intent
    /\ file = <<embeddings>>

\* C19 as stated: an Embedding-mode addIntent whose provider call fails
\* throws and leaves the dataset, the index and the vector store as they were
\* before the call.
C19_AtomicAdd ==
    [][(last'.op = "addIntent" /\ last'.outcome = "error" /\ last'.pcalls = 1)
       => UNCHANGED <<dataset, tfidf, embeddings, file>>]_vars

\* The records a step of generateEmbeddings adds to embeddingsData.
NewRecords ==
    SubSeq(gen'.embeddingsData, Len(gen.embeddingsData) + 1, Len(gen'.embeddingsData))

\* A step in which the provider's answer for the awaited batch is taken.
BatchAnswered ==
    gen.pc = "await" /\ gen'.pc = "loop" /\ gen'.answers = Append(gen.answers, "ok")

\* The record holds the text and the intent of the Example of the sent slice
\* whose text its vector is the embedding of.
PairedWithSent(r) ==
    \E j \in 1..Len(gen.sent) :
        /\ r.vector = Embed(gen.sent[j].text)
        /\ r.text = gen.sent[j].text
        /\ r.intent = gen.sent[j].intent

\* C20 as stated: whatever addIntent or removeIntent call runs while a batch
\* is awaited, every record generateEmbeddings builds from the answer pairs
\* the vector with the text and intent of the Example it was computed from.
C20_Original ==
    [][BatchAnswered => \A k \in 1..Len(NewRecords) : PairedWithSent(NewRecords[k])]_vars

\* C20, amended: when no removeIntent has run while the batch was awaited
\* (addIntent calls may have), every record built from the answer pairs the
\* vector with the text and intent of the Example it was computed from.
C20_PairedUnlessRemoved ==
    [][(BatchAnswered /\ ~gen.removed)
       => \A k \in 1..Len(NewRecords) : PairedWithSent(NewRecords[k])]_vars

\* An addIntent was the latest call to run while the first batch was awaited,
\* it added a second Example, and the answer gave the batch's record, whose
\* vector is the embedding of its text.
C20_Witness ==
    /\ gen.pc = "loop"
    /\ gen.answers = <<"ok">>
    /\ last.op = "addIntent"
    /\ last.outcome = "ok"
    /\ last.pcalls = 1
    /\ Len(dataset) = 2
    /\ Len(gen.embeddingsData) = 1
    /\ gen.embeddingsData[1].text = dataset[1].text
    /\ gen.embeddingsData[1].intent = dataset[1].intent
    /\ gen.embeddingsData[1].vector = Embed(dataset[1].text)

====
